---- MODULE Spec2Model ----
(***************************************************************************)
(* Model of tensorflow_datasets/core/utils/version.py: the Version value   *)
(* type (MAJOR.MINOR.PATCH), its parser _str_to_version, its comparison    *)
(* operators, wildcard matching and per-version feature flags.             *)
(*                                                                         *)
(* Strings are sequences of one-character strings, so that the regular     *)
(* expressions, int() and str.format() are computed character by           *)
(* character.  Python values are tagged records [t |-> type, v |-> value]. *)
(* The interpreter modelled is Python 3 (six.string_types = (str,), and    *)
(* != is the negation of __eq__).                                          *)
(***************************************************************************)
EXTENDS Integers, Sequences, FiniteSets, TLC

VARIABLES
    DEFAULT_FEATURES,   \* Version._DEFAULT_FEATURES, the class-level dict
    versions,           \* the caller's names, each unbound or bound to a Version
    last                \* the call that just finished and its outcome, or idle

vars == <<DEFAULT_FEATURES, versions, last>>

-----------------------------------------------------------------------------
(* Python values and call outcomes *)

PyStr(s) == [t |-> "str", v |-> s]
PyInt(n) == [t |-> "int", v |-> n]
PyNone == [t |-> "NoneType", v |-> <<>>]

\* Python's == between the values that occur here (int and str never compare equal)
PyEq(x, y) == x.t = y.t /\ x.v = y.v

Return(value) == [outcome |-> "return", value |-> value]
Raise(exc, msg) == [outcome |-> "raise", exc |-> exc, msg |-> msg]

-----------------------------------------------------------------------------
(* Characters, int() and "{}".format() *)

DigitChars == <<"0", "1", "2", "3", "4", "5", "6", "7", "8", "9">>

IsDigit(c) == \E i \in 1..10 : DigitChars[i] = c

DigitValue(c) == (CHOOSE i \in 1..10 : DigitChars[i] = c) - 1

\* int(v) for a string of decimal digits
RECURSIVE int(_)
int(s) ==
    IF Len(s) = 0 THEN 0
    ELSE 10 * int(SubSeq(s, 1, Len(s) - 1)) + DigitValue(s[Len(s)])

\* "{}".format(n) for a non-negative int
RECURSIVE FormatInt(_)
FormatInt(n) ==
    IF n < 10 THEN <<DigitChars[n + 1]>>
    ELSE FormatInt(n \div 10) \o <<DigitChars[(n % 10) + 1]>>

\* "{}".format(x) for an int or a str
Format(x) == IF x.t = "int" THEN FormatInt(x.v) ELSE x.v

-----------------------------------------------------------------------------
(* The regular expressions.  A group matched at index i gives the index    *)
(* after it, or 0 if it does not match there.                              *)

NoMatch == [matched |-> FALSE]

\* The index after the run of digits that starts at index i (i itself if none)
RECURSIVE DigitRun(_, _)
DigitRun(s, i) ==
    IF i <= Len(s) /\ IsDigit(s[i]) THEN DigitRun(s, i + 1) ELSE i

\* "\d+" is greedy; a shorter run is followed by a digit, which neither "\."
\* nor "$" matches, so backtracking into it never succeeds.
NonEmptyRun(i, end) == IF end > i THEN end ELSE 0

\* \d+
Digits(s, i) == NonEmptyRun(i, DigitRun(s, i))

\* \*
Wildcard(s, i) == IF i <= Len(s) /\ s[i] = "*" THEN i + 1 ELSE 0

\* first|second
Alternative(first, second) == IF first > 0 THEN first ELSE second

\* \d+|\*
DigitsOrWildcard(s, i) == Alternative(Digits(s, i), Wildcard(s, i))

\* The component pattern v matched at index i
Group(v, s, i) ==
    IF v = "\\d+|\\*" THEN DigitsOrWildcard(s, i) ELSE Digits(s, i)

\* Where "$" matches: at the end of the string and just before a newline
\* that is the last character of the string.
DollarPositions(s) ==
    {Len(s)} \cup (IF Len(s) >= 1 /\ s[Len(s)] = "\n" THEN {Len(s) - 1} ELSE {})

\* "\." at index i and then the component pattern: the index after both
DotGroup(v, s, i) ==
    IF i >= 1 /\ i <= Len(s) /\ s[i] = "." THEN Group(v, s, i + 1) ELSE 0

\* The match object, given the indices after the three groups
MatchObject(s, e1, e2, e3) ==
    IF e3 > 0 /\ (e3 - 1) \in DollarPositions(s)
    THEN [matched |-> TRUE,
          major |-> SubSeq(s, 1, e1 - 1),
          minor |-> SubSeq(s, e1 + 1, e2 - 1),
          patch |-> SubSeq(s, e2 + 1, e3 - 1)]
    ELSE NoMatch

AfterMinor(v, s, e1, e2) == MatchObject(s, e1, e2, DotGroup(v, s, e2))

AfterMajor(v, s, e1) == AfterMinor(v, s, e1, DotGroup(v, s, e1))

\* re.compile(_VERSION_TMPL.format(v=...)).match(s):
\* ^(?P<major>v)\.(?P<minor>v)\.(?P<patch>v)$
_VERSION_TMPL(s, v) == AfterMajor(v, s, Group(v, s, 1))

_VERSION_WILDCARD_REG(s) == _VERSION_TMPL(s, "\\d+|\\*")

_VERSION_RESOLVED_REG(s) == _VERSION_TMPL(s, "\\d+")

-----------------------------------------------------------------------------
(* _str_to_version *)

Component(v) == IF v = <<"*">> THEN PyStr(v) ELSE PyInt(int(v))

\* The body of _str_to_version after res = reg.match(version_str)
FromMatch(res, version_str, allow_wildcard) ==
    IF ~res.matched
    THEN Raise("ValueError",
               [version_str |-> version_str,
                format |-> "x.y.z",
                with |-> IF allow_wildcard THEN "digits or wildcard"
                         ELSE "digits"])
    ELSE Return(<<Component(res.major), Component(res.minor),
                  Component(res.patch)>>)

_str_to_version(version_str, allow_wildcard) ==
    FromMatch(IF allow_wildcard THEN _VERSION_WILDCARD_REG(version_str)
              ELSE _VERSION_RESOLVED_REG(version_str),
              version_str, allow_wildcard)

-----------------------------------------------------------------------------
(* class Feature, class Version *)

\* Feature.DUMMY is the only member of the enumeration; "OTHER" stands for any
\* other hashable key a caller puts in the features dict.
FeatureKeys == {"DUMMY", "OTHER"}

_DEFAULT_FEATURES == [k \in {"DUMMY"} |-> FALSE]

PyDict(d) == [t |-> "dict", v |-> d]

\* bool(features): None and the empty dict are falsy
Truthy(features) == features.t = "dict" /\ DOMAIN features.v # {}

\* dict.update
Update(d, f) ==
    [k \in DOMAIN d \cup DOMAIN f |-> IF k \in DOMAIN f THEN f[k] ELSE d[k]]

\* A bug: no copy, so that update() writes into the class dict
InitFeatures_shared(defaults, features) ==
    [self |-> IF Truthy(features) THEN Update(defaults, features.v) ELSE defaults,
     cls  |-> IF Truthy(features) THEN Update(defaults, features.v) ELSE defaults]

\* The first three lines of __init__: self._features is a copy of the class
\* dict, updated with the features given.  self is the instance's dict, cls
\* the class dict afterwards.
InitFeatures(defaults, features) ==
    [self |-> IF Truthy(features) THEN Update(defaults, features.v) ELSE defaults,
     cls  |-> defaults]

\* The instance once the parser has returned, or the parser's exception.
\* version_str and features are history fields: the arguments the instance
\* was built from.
NewVersion(parsed, version_str, features, defaults) ==
    IF parsed.outcome = "raise" THEN parsed
    ELSE Return([t |-> "Version",
                 _features |-> InitFeatures(defaults, features).self,
                 major |-> parsed.value[1],
                 minor |-> parsed.value[2],
                 patch |-> parsed.value[3],
                 version_str |-> version_str,
                 features |-> features])

\* A bug: the wildcard grammar is used at construction
Version__init___wildcard(version_str, features, defaults) ==
    NewVersion(_str_to_version(version_str, TRUE), version_str, features, defaults)

\* Version(version_str, features)
Version__init__(version_str, features, defaults) ==
    NewVersion(_str_to_version(version_str, FALSE), version_str, features, defaults)

\* A bug: dict.get(feature, False) instead of the subscript
implements_get(self, feature) ==
    IF feature \in DOMAIN self._features
    THEN Return(self._features[feature])
    ELSE Return(FALSE)

implements(self, feature) ==
    IF feature \in DOMAIN self._features
    THEN Return(self._features[feature])
    ELSE Raise("KeyError", feature)

\* A bug: minor and patch swapped in the format arguments
__str___swapped(self) ==
    Return(Format(self.major) \o <<".">> \o Format(self.patch) \o <<".">>
           \o Format(self.minor))

__str__(self) ==
    Return(Format(self.major) \o <<".">> \o Format(self.minor) \o <<".">>
           \o Format(self.patch))

tuple(self) == <<self.major, self.minor, self.patch>>

_validate_operand(other, defaults) ==
    IF other.t = "str" THEN Version__init__(other.v, PyNone, defaults)
    ELSE IF other.t = "Version" THEN Return(other)
    ELSE Raise("AssertionError", [other |-> other, type |-> other.t])

\* == of two 3-tuples
TupleEq(x, y) == \A i \in 1..3 : PyEq(x[i], y[i])

\* < of two elements: an int and a str cannot be ordered
ElementLt(a, b) ==
    IF a.t = "int" /\ b.t = "int" THEN Return(a.v < b.v)
    ELSE Raise("TypeError", <<a.t, b.t>>)

\* < of two 3-tuples that differ at the positions in differ, decided at i
DecidedAt(x, y, differ, i) ==
    IF differ = {} THEN Return(FALSE) ELSE ElementLt(x[i], y[i])

First(differ) ==
    IF differ = {} THEN 0 ELSE CHOOSE i \in differ : \A j \in differ : i <= j

Last(differ) ==
    IF differ = {} THEN 0 ELSE CHOOSE i \in differ : \A j \in differ : i >= j

Differ(x, y) == {i \in 1..3 : ~PyEq(x[i], y[i])}

\* A bug: the last differing position decides instead of the first
TupleLt_lastDiffers(x, y) == DecidedAt(x, y, Differ(x, y), Last(Differ(x, y)))

\* < of two 3-tuples: decided by the first position where they differ
TupleLt(x, y) == DecidedAt(x, y, Differ(x, y), First(Differ(x, y)))

\* self.tuple() == o.tuple() once o = self._validate_operand(other) is known
EqValidated(self, o) ==
    IF o.outcome = "raise" THEN o
    ELSE Return(TupleEq(tuple(self), tuple(o.value)))

\* A bug: an operand of another type compares unequal instead of raising
__eq___lenient(self, other, defaults) ==
    IF other.t \notin {"str", "Version"} THEN Return(FALSE)
    ELSE EqValidated(self, _validate_operand(other, defaults))

__eq__(self, other, defaults) ==
    EqValidated(self, _validate_operand(other, defaults))

\* self.tuple() < o.tuple() once o = self._validate_operand(other) is known
LtValidated(self, o) ==
    IF o.outcome = "raise" THEN o
    ELSE TupleLt(tuple(self), tuple(o.value))

__lt__(self, other, defaults) ==
    LtValidated(self, _validate_operand(other, defaults))

\* not e, or e's exception
Negated(e) == IF e.outcome = "raise" THEN e ELSE Return(~e.value)

\* object.__ne__: the negation of __eq__
__ne__(self, other, defaults) == Negated(__eq__(self, other, defaults))

\* functools.total_ordering, from op_result = self.__lt__(other):
\*   __gt__: not op_result and self != other
\*   __le__: op_result or self == other
\*   __ge__: not op_result
GtFromLt(op_result, self, other, defaults) ==
    IF op_result.outcome = "raise" THEN op_result
    ELSE IF op_result.value THEN Return(FALSE)
    ELSE __ne__(self, other, defaults)

LeFromLt(op_result, self, other, defaults) ==
    IF op_result.outcome = "raise" THEN op_result
    ELSE IF op_result.value THEN Return(TRUE)
    ELSE __eq__(self, other, defaults)

\* A bug: __gt__ derived as "not (self < other)" alone
__gt___not_lt(self, other, defaults) == Negated(__lt__(self, other, defaults))

__gt__(self, other, defaults) ==
    GtFromLt(__lt__(self, other, defaults), self, other, defaults)

__le__(self, other, defaults) ==
    LeFromLt(__lt__(self, other, defaults), self, other, defaults)

__ge__(self, other, defaults) == Negated(__lt__(self, other, defaults))

\* component in [mine, "*"]
In(component, mine) == PyEq(component, mine) \/ PyEq(component, PyStr(<<"*">>))

\* A bug: "or" between the three component tests
MatchParsed_any(self, parsed) ==
    IF parsed.outcome = "raise" THEN parsed
    ELSE Return(\/ In(parsed.value[1], self.major)
                \/ In(parsed.value[2], self.minor)
                \/ In(parsed.value[3], self.patch))

\* The body of match after the call of _str_to_version
MatchParsed(self, parsed) ==
    IF parsed.outcome = "raise" THEN parsed
    ELSE Return(/\ In(parsed.value[1], self.major)
                /\ In(parsed.value[2], self.minor)
                /\ In(parsed.value[3], self.patch))

match(self, other_version) ==
    MatchParsed(self, _str_to_version(other_version, TRUE))

-----------------------------------------------------------------------------
(* The calls a program makes: bounded inputs *)

\* Version components range over 9..MaxComponent
MaxComponent == 10

Components == 9..MaxComponent

Join3(a, b, c) == a \o <<".">> \o b \o <<".">> \o c

\* "{}.{}.{}".format(M, N, P) for the triples that differ from 9.9.9 in at
\* most one component
CanonicalStrings ==
    {Join3(FormatInt(t[1]), FormatInt(t[2]), FormatInt(t[3])) :
        t \in {u \in Components \X Components \X Components :
                  Cardinality({i \in 1..3 : u[i] # 9}) <= 1}}

\* Other strings the resolved grammar is tried on
OtherStrings ==
    { <<"0", ".", "0", ".", "0">>,                       \* zeros
      <<"0", "9", ".", "9", ".", "9">>,                  \* leading zero
      <<"9", ".", "9", ".", "9", "\n">>,                 \* trailing newline
      <<"9", ".", "9", ".", "9", "\n", "\n">>,           \* two trailing newlines
      <<"\n", "9", ".", "9", ".", "9">>,                 \* leading newline
      <<" ", "9", ".", "9", ".", "9">>,                  \* leading space
      <<"9", ".", "9", ".", "9", " ">>,                  \* trailing space
      <<"9", ".", ".", "9">>,                            \* empty component
      <<>>,                                              \* empty string
      <<"9", ".", "9">>,                                 \* two components
      <<"9", ".", "9", ".", "9", ".", "9">>,             \* four components
      <<"a", ".", "b", ".", "c">>,                       \* letters
      <<"9", ".", "9", ".", "*">>,                       \* wildcard
      <<"l", "a", "t", "e", "s", "t">> }                 \* Version.LATEST

VersionStrings == CanonicalStrings \cup OtherStrings

PatternComponents == {FormatInt(n) : n \in Components} \cup {<<"*">>}

PatternStrings ==
    {Join3(a, b, c) : a \in PatternComponents, b \in PatternComponents,
                      c \in PatternComponents}
    \cup { <<"*", ".", "*", ".", "*", "\n">>,
           <<"0", "9", ".", "*", ".", "*">>,
           <<"*", "*", ".", "9", ".", "9">>,
           <<"*", ".", "9">> }

FeatureArgs ==
    { PyNone,
      PyDict([k \in {"DUMMY"} |-> TRUE]),
      PyDict([k \in {"OTHER"} |-> TRUE]) }

\* Operands that are neither a Version nor a str
ForeignOperands == { PyInt(5), PyNone }

Names == {"a", "b"}

Unbound == [t |-> "unbound"]

Bound(n) == versions[n].t = "Version"

Idle == [call |-> "idle"]

Call(call, name, args, res) ==
    [call |-> call, name |-> name, args |-> args, res |-> res]

\* What a comparison's right-hand side can be
Operands ==
    {PyStr(s) : s \in VersionStrings}
    \cup {versions[n] : n \in {m \in Names : Bound(m)}}
    \cup ForeignOperands

-----------------------------------------------------------------------------
(* State machine *)

Init ==
    /\ DEFAULT_FEATURES = _DEFAULT_FEATURES
    /\ versions = [n \in Names |-> Unbound]
    /\ last = Idle

\* The assignment name = <r>, where r is the constructor's outcome
Bind(name, r) ==
    versions' = IF r.outcome = "return"
                THEN [versions EXCEPT ![name] = r.value]
                ELSE versions

\* name = Version(version_str, features)
Construct ==
    /\ last = Idle
    /\ \E name \in Names, version_str \in VersionStrings, features \in FeatureArgs :
           /\ DEFAULT_FEATURES' = InitFeatures(DEFAULT_FEATURES, features).cls
           /\ last' = Call("Version", name, <<PyStr(version_str), features>>,
                           Version__init__(version_str, features, DEFAULT_FEATURES))
           /\ Bind(name, last'.res)

\* A method call on the Version bound to name: no method assigns anything
Query(call, name, args, res) ==
    /\ Bound(name)
    /\ last' = Call(call, name, args, res)
    /\ UNCHANGED <<DEFAULT_FEATURES, versions>>

\* name == other
Eq ==
    /\ last = Idle
    /\ \E name \in Names, other \in Operands :
           Query("__eq__", name, <<other>>,
                 __eq__(versions[name], other, DEFAULT_FEATURES))

\* name != other
Ne ==
    /\ last = Idle
    /\ \E name \in Names, other \in Operands :
           Query("__ne__", name, <<other>>,
                 __ne__(versions[name], other, DEFAULT_FEATURES))

\* name < other
Lt ==
    /\ last = Idle
    /\ \E name \in Names, other \in Operands :
           Query("__lt__", name, <<other>>,
                 __lt__(versions[name], other, DEFAULT_FEATURES))

\* name <= other
Le ==
    /\ last = Idle
    /\ \E name \in Names, other \in Operands :
           Query("__le__", name, <<other>>,
                 __le__(versions[name], other, DEFAULT_FEATURES))

\* name > other
Gt ==
    /\ last = Idle
    /\ \E name \in Names, other \in Operands :
           Query("__gt__", name, <<other>>,
                 __gt__(versions[name], other, DEFAULT_FEATURES))

\* name >= other
Ge ==
    /\ last = Idle
    /\ \E name \in Names, other \in Operands :
           Query("__ge__", name, <<other>>,
                 __ge__(versions[name], other, DEFAULT_FEATURES))

\* name.match(other_version)
Match ==
    /\ last = Idle
    /\ \E name \in Names, other_version \in PatternStrings :
           Query("match", name, <<PyStr(other_version)>>,
                 match(versions[name], other_version))

\* name.implements(feature)
Implements ==
    /\ last = Idle
    /\ \E name \in Names, feature \in FeatureKeys :
           Query("implements", name, <<feature>>,
                 implements(versions[name], feature))

\* str(name)
Str ==
    /\ last = Idle
    /\ \E name \in Names : Query("__str__", name, <<>>, __str__(versions[name]))

\* name.tuple()
Tuple ==
    /\ last = Idle
    /\ \E name \in Names : Query("tuple", name, <<>>, Return(tuple(versions[name])))

\* The caller takes the value or handles the exception, and goes on
Resume ==
    /\ last # Idle
    /\ last' = Idle
    /\ UNCHANGED <<DEFAULT_FEATURES, versions>>

Next ==
    \/ Construct
    \/ Eq
    \/ Ne
    \/ Lt
    \/ Le
    \/ Gt
    \/ Ge
    \/ Match
    \/ Implements
    \/ Str
    \/ Tuple
    \/ Resume

Spec == Init /\ [][Next]_vars

-----------------------------------------------------------------------------
(* The grammar and the numbers as the specification states them, written   *)
(* independently of the parser above                                       *)

DigitNumber ==
    ("0" :> 0) @@ ("1" :> 1) @@ ("2" :> 2) @@ ("3" :> 3) @@ ("4" :> 4) @@
    ("5" :> 5) @@ ("6" :> 6) @@ ("7" :> 7) @@ ("8" :> 8) @@ ("9" :> 9)

AllDigits(c) == Len(c) >= 1 /\ \A i \in 1..Len(c) : c[i] \in DOMAIN DigitNumber

\* The number a string of digits denotes, most significant digit first
RECURSIVE DecimalValue(_)
DecimalValue(c) ==
    IF Len(c) = 0 THEN 0
    ELSE LET rest == DecimalValue(Tail(c))
             RECURSIVE Pow10(_)
             Pow10(k) == IF k = 0 THEN 1 ELSE 10 * Pow10(k - 1)
         IN  DigitNumber[Head(c)] * Pow10(Len(c) - 1) + rest

DotIndices(s) == {i \in 1..Len(s) : s[i] = "."}

HasThreeParts(s) == Cardinality(DotIndices(s)) = 2

\* The three parts of a string with exactly two dots
Parts(s) ==
    LET i == CHOOSE i \in DotIndices(s) : \A j \in DotIndices(s) : i <= j
        j == CHOOSE j \in DotIndices(s) : \A k \in DotIndices(s) : j >= k
    IN  <<SubSeq(s, 1, i - 1), SubSeq(s, i + 1, j - 1), SubSeq(s, j + 1, Len(s))>>

\* d+.d+.d+ and nothing else
ResolvedGrammar(s) ==
    HasThreeParts(s) /\ \A k \in 1..3 : AllDigits(Parts(s)[k])

\* each component d+ or *
WildcardGrammar(s) ==
    HasThreeParts(s) /\ \A k \in 1..3 : AllDigits(Parts(s)[k]) \/ Parts(s)[k] = <<"*">>

\* a decimal numeral without leading zeros
Numeral(c) == AllDigits(c) /\ (Len(c) = 1 \/ c[1] # "0")

\* "M.N.P" for non-negative integers M, N, P
DecimalTriple(s) == HasThreeParts(s) /\ \A k \in 1..3 : Numeral(Parts(s)[k])

\* s without one trailing newline
Chomp(s) ==
    IF Len(s) >= 1 /\ s[Len(s)] = "\n" THEN SubSeq(s, 1, Len(s) - 1) ELSE s

\* The numbers written in the string an instance was built from
WrittenNumbers(v) ==
    LET parts == Parts(Chomp(v.version_str))
    IN  <<DecimalValue(parts[1]), DecimalValue(parts[2]), DecimalValue(parts[3])>>

LexLess(x, y) ==
    \/ x[1] < y[1]
    \/ x[1] = y[1] /\ x[2] < y[2]
    \/ x[1] = y[1] /\ x[2] = y[2] /\ x[3] < y[3]

Relation(call, x, y) ==
    CASE call = "__eq__" -> x = y
      [] call = "__ne__" -> x # y
      [] call = "__lt__" -> LexLess(x, y)
      [] call = "__le__" -> LexLess(x, y) \/ x = y
      [] call = "__gt__" -> LexLess(y, x)
      [] call = "__ge__" -> LexLess(y, x) \/ x = y

CompareCalls == {"__eq__", "__ne__", "__lt__", "__le__", "__gt__", "__ge__"}

Compare(call, self, other, defaults) ==
    CASE call = "__eq__" -> __eq__(self, other, defaults)
      [] call = "__ne__" -> __ne__(self, other, defaults)
      [] call = "__lt__" -> __lt__(self, other, defaults)
      [] call = "__le__" -> __le__(self, other, defaults)
      [] call = "__gt__" -> __gt__(self, other, defaults)
      [] call = "__ge__" -> __ge__(self, other, defaults)

Str9_9_9 == <<"9", ".", "9", ".", "9">>
Str9_10_9 == <<"9", ".", "1", "0", ".", "9">>

-----------------------------------------------------------------------------
(* Claims *)

\* C1: Version(version_str) succeeds if and only if version_str is exactly
\* d+.d+.d+ with no other character; every other string makes the
\* constructor fail with the invalid-format error (ValueError).
C1_ConstructorAcceptsExactlyTheGrammar ==
    last.call = "Version" =>
        IF ResolvedGrammar(last.args[1].v)
        THEN last.res.outcome = "return"
        ELSE last.res.outcome = "raise" /\ last.res.exc = "ValueError"

\* C2: between two constructed Versions each of the six operators returns the
\* lexicographic comparison of the integer triples, major first, then minor,
\* then patch, the components compared as numbers.
C2_OperatorsAreLexicographic ==
    (last.call \in CompareCalls /\ last.args[1].t = "Version") =>
        last.res = Return(Relation(last.call,
                                   WrittenNumbers(versions[last.name]),
                                   WrittenNumbers(last.args[1])))

\* C2 witness: 9.10.9 > 9.9.9 was evaluated and returned True
C2_Witness ==
    /\ last.call = "__gt__"
    /\ versions[last.name].version_str = Str9_10_9
    /\ last.args[1].t = "Version"
    /\ last.args[1].version_str = Str9_9_9
    /\ last.res = Return(TRUE)

\* C3: for any two constructed Versions exactly one of a < b, a == b, a > b
\* holds.
C3_Trichotomy ==
    \A n \in Names, m \in Names :
        (Bound(n) /\ Bound(m)) =>
            LET lt == __lt__(versions[n], versions[m], DEFAULT_FEATURES)
                eq == __eq__(versions[n], versions[m], DEFAULT_FEATURES)
                gt == __gt__(versions[n], versions[m], DEFAULT_FEATURES)
            IN  /\ \A r \in {lt, eq, gt} : r.outcome = "return"
                /\ Cardinality({k \in 1..3 : <<lt, eq, gt>>[k].value}) = 1

\* C3 witness: two Versions equal as numbers but built from different
\* strings are bound, and == between them returned True
C3_Witness ==
    /\ Bound("a") /\ Bound("b")
    /\ versions["a"].version_str = Str9_9_9
    /\ versions["b"].version_str = <<"0", "9", ".", "9", ".", "9">>
    /\ last.call = "__eq__" /\ last.name = "a"
    /\ last.args[1] = versions["b"]
    /\ last.res = Return(TRUE)

\* C4: for a pattern of the wildcard grammar, match returns true iff each of
\* the three components is the wildcard or numerically equal to the
\* Version's component.
C4_MatchIsComponentwise ==
    (last.call = "match" /\ WildcardGrammar(last.args[1].v)) =>
        LET parts == Parts(last.args[1].v)
            self == tuple(versions[last.name])
        IN  last.res = Return(\A k \in 1..3 :
                                  \/ parts[k] = <<"*">>
                                  \/ DecimalValue(parts[k]) = self[k].v)

\* C4 witness: a pattern with a wildcard and one mismatching component was
\* matched against 9.10.9 and gave False
C4_Witness ==
    /\ last.call = "match"
    /\ versions[last.name].version_str = Str9_10_9
    /\ last.args[1].v = <<"9", ".", "9", ".", "*">>
    /\ last.res = Return(FALSE)

\* C5: rendering the Version built from "M.N.P" gives "M.N.P" again, and a
\* rendering is always three decimal numerals without leading zeros and
\* without wildcards.
C5_RoundTrip ==
    last.call = "__str__" =>
        /\ last.res.outcome = "return"
        /\ DecimalTriple(last.res.value)
        /\ DecimalTriple(versions[last.name].version_str) =>
               last.res.value = versions[last.name].version_str

\* C5 witness: the Version built from "9.10.9" was rendered
C5_Witness ==
    /\ last.call = "__str__"
    /\ versions[last.name].version_str = Str9_10_9
    /\ last.res = Return(Str9_10_9)

\* C6: overrides apply to their instance only: the class defaults never
\* change, and implements(DUMMY) is the instance's own override if it was
\* given one and the default False otherwise.
C6_OverridesArePerInstance ==
    /\ DEFAULT_FEATURES = [k \in {"DUMMY"} |-> FALSE]
    /\ \A n \in Names :
           Bound(n) =>
               LET given == versions[n].features
                   dummy == implements(versions[n], "DUMMY")
               IN  IF given.t = "dict" /\ "DUMMY" \in DOMAIN given.v
                   THEN dummy = Return(given.v["DUMMY"])
                   ELSE dummy = Return(FALSE)

\* C6 witness: a was built with DUMMY overridden to True, b after it without
\* an override, and implements(DUMMY) on b returned False
C6_Witness ==
    /\ Bound("a") /\ Bound("b")
    /\ versions["a"].features = PyDict([k \in {"DUMMY"} |-> TRUE])
    /\ versions["b"].features = PyNone
    /\ implements(versions["a"], "DUMMY") = Return(TRUE)
    /\ last.call = "implements" /\ last.name = "b" /\ last.args[1] = "DUMMY"
    /\ last.res = Return(FALSE)

\* C7: comparing a Version with an operand that is neither a Version nor a
\* string fails, for each of the six operators, with the error that names
\* the operand and its type (AssertionError); it never returns a boolean.
C7_ForeignOperandRaises ==
    (last.call \in CompareCalls /\ last.args[1].t \notin {"str", "Version"}) =>
        last.res = Raise("AssertionError",
                         [other |-> last.args[1], type |-> last.args[1].t])

\* C7 witness: != against the int 5 raised
C7_Witness ==
    /\ last.call = "__ne__"
    /\ last.args[1] = PyInt(5)
    /\ last.res.outcome = "raise"

\* C8: a comparison with a string of the resolved grammar returns what the
\* comparison with Version(s) returns; with any other string it fails with
\* the invalid-format error (ValueError) instead of returning a boolean.
C8_StringOperandIsParsedOrRejected ==
    (last.call \in CompareCalls /\ last.args[1].t = "str") =>
        IF ResolvedGrammar(last.args[1].v)
        THEN last.res =
                 Compare(last.call, versions[last.name],
                         Version__init__(last.args[1].v, PyNone,
                                         DEFAULT_FEATURES).value,
                         DEFAULT_FEATURES)
        ELSE last.res.outcome = "raise" /\ last.res.exc = "ValueError"

\* C9: every Version that exists holds three non-negative integers, the
\* numbers written in the string it was built from, never a wildcard; and a
\* failed construction leaves no instance built from its argument.
C9_FieldsAreResolvedIntegers ==
    /\ \A n \in Names :
           Bound(n) =>
               /\ \A k \in 1..3 : /\ tuple(versions[n])[k].t = "int"
                                  /\ tuple(versions[n])[k].v >= 0
               /\ <<versions[n].major.v, versions[n].minor.v, versions[n].patch.v>>
                      = WrittenNumbers(versions[n])
    /\ (last.call = "Version" /\ last.res.outcome = "raise") =>
           \A n \in Names :
               Bound(n) => versions[n].version_str # last.args[1].v

\* C9 witness: with 9.10.9 and 09.9.9 bound, a pattern with wildcards was
\* matched against the first and the fields of both are still their numbers
C9_Witness ==
    /\ Bound("a") /\ versions["a"].version_str = Str9_10_9
    /\ Bound("b") /\ versions["b"].version_str = <<"0", "9", ".", "9", ".", "9">>
    /\ last.call = "match" /\ last.name = "a"
    /\ last.args[1].v = <<"*", ".", "1", "0", ".", "*">>
    /\ last.res = Return(TRUE)

\* C10: implements returns the boolean stored for the feature; a feature in
\* neither the defaults nor the features given at construction raises
\* KeyError, never False; a feature outside the defaults that was given at
\* construction is accepted and its value returned.
C10_ImplementsLooksUpOrRaises ==
    last.call = "implements" =>
        LET feature == last.args[1]
            given == versions[last.name].features
        IN  IF given.t = "dict" /\ feature \in DOMAIN given.v
            THEN last.res = Return(given.v[feature])
            ELSE IF feature \in DOMAIN _DEFAULT_FEATURES
            THEN last.res = Return(_DEFAULT_FEATURES[feature])
            ELSE last.res = Raise("KeyError", feature)

\* C10 witness: implements(OTHER) raised KeyError on a Version built without it
C10_Witness ==
    /\ last.call = "implements"
    /\ last.args[1] = "OTHER"
    /\ versions[last.name].features = PyDict([k \in {"DUMMY"} |-> TRUE])
    /\ last.res = Raise("KeyError", "OTHER")

====
